---- MODULE Spec2Model ----
(***************************************************************************)
(* A model of neon-sql (src/src/index.ts): the template composer, the      *)
(* keyword builders, the value codec, the array text parser and the        *)
(* deferred Query object with its transport.                               *)
(*                                                                         *)
(* Text is a sequence of one-character strings, so that the regular        *)
(* expressions, the escaping and the parsers of the source work on the     *)
(* characters they work on in the source.  A JavaScript value is a record  *)
(* whose field k names its kind.                                           *)
(***************************************************************************)
EXTENDS Integers, Sequences, FiniteSets, TLC

VARIABLES
  heap,              \* the Query objects created so far, by object id
  requests,          \* what the transport (fetch) was asked to send, in order
  attached,          \* ids of the queries then/catch/finally was called on
  begun,             \* ids of the queries passed to sql.begin
  last,              \* the last operation and what it returned or threw
  arrayParserState   \* the module-level scratch record of the array parser

vars == <<heap, requests, attached, begun, last, arrayParserState>>

(***************************************************************************)
(* Characters and text                                                     *)
(***************************************************************************)
Digits == <<"0", "1", "2", "3", "4", "5", "6", "7", "8", "9">>

IsDigit(c) == \E d \in 1..10 : Digits[d] = c

DigitVal(c) == (CHOOSE d \in 1..10 : Digits[d] = c) - 1

RECURSIVE NatToChars(_)
NatToChars(n) ==
  IF n < 10 THEN <<Digits[n + 1]>>
  ELSE NatToChars(n \div 10) \o <<Digits[(n % 10) + 1]>>

RECURSIVE CharsToNat(_)
CharsToNat(s) ==
  IF s = <<>> THEN 0
  ELSE 10 * CharsToNat(SubSeq(s, 1, Len(s) - 1)) + DigitVal(s[Len(s)])

AllDigits(s) == \A i \in 1..Len(s) : IsDigit(s[i])

\* String.prototype.slice(a, b) on 0-based offsets, both clamped to the text.
Min(a, b) == IF a < b THEN a ELSE b
Max(a, b) == IF a > b THEN a ELSE b
Slice(x, a, b) == SubSeq(x, Min(Max(a, 0), Len(x)) + 1, Min(Max(b, 0), Len(x)))

\* Whether text x holds text w at 0-based offset i.
HasAt(x, i, w) == i + Len(w) <= Len(x) /\ SubSeq(x, i + 1, i + Len(w)) = w

RECURSIVE Join(_, _)
Join(parts, sep) ==
  IF parts = <<>> THEN <<>>
  ELSE IF Len(parts) = 1 THEN parts[1]
  ELSE parts[1] \o sep \o Join(Tail(parts), sep)

(***************************************************************************)
(* JavaScript values                                                       *)
(***************************************************************************)
Undefined == [k |-> "undefined"]
Null == [k |-> "null"]
Bool(b) == [k |-> "boolean", b |-> b]
\* A number is NaN or (-1)^neg * (int + 0.frac), frac a digit sequence
\* of digit characters without trailing zeros (-0 is kept as 0: the two are
\* equal numbers and print alike).
Num(neg, int, frac) ==
  [k |-> "number", nan |-> FALSE, neg |-> neg /\ (int # 0 \/ frac # <<>>),
   int |-> int, frac |-> frac]
NaN == [k |-> "number", nan |-> TRUE, neg |-> FALSE, int |-> 0, frac |-> <<>>]
IntNum(n) == Num(n < 0, IF n < 0 THEN 0 - n ELSE n, <<>>)
BigInt(n) == [k |-> "bigint", neg |-> n < 0, int |-> IF n < 0 THEN 0 - n ELSE n]
Str(s) == [k |-> "string", s |-> s]
\* A Date is its time value in milliseconds; ok = FALSE is Invalid Date.
Date(t) == [k |-> "date", ok |-> TRUE, t |-> t]
InvalidDate == [k |-> "date", ok |-> FALSE, t |-> 0]
Buf(bytes) == [k |-> "buffer", bytes |-> bytes]
Arr(xs) == [k |-> "array", xs |-> xs]
Obj(keys, vals) == [k |-> "object", keys |-> keys, vals |-> vals]
\* What a call that threw leaves instead of a value.
Throw(e) == [k |-> "throw", e |-> e]

typeof(x) ==
  CASE x.k = "undefined" -> "undefined"
    [] x.k = "boolean" -> "boolean"
    [] x.k = "number" -> "number"
    [] x.k = "bigint" -> "bigint"
    [] x.k = "string" -> "string"
    [] OTHER -> "object"

(***************************************************************************)
(* Type inference and serialization (index.ts 383-434)                     *)
(***************************************************************************)
inferScalarType(x) ==
  IF x.k = "null" THEN 0
  ELSE CASE typeof(x) = "string" -> 25
         [] typeof(x) = "number" ->
              IF ~x.nan /\ x.frac = <<>> THEN 23 ELSE 700
         [] typeof(x) = "boolean" -> 16
         [] typeof(x) = "object" -> 114
         [] OTHER -> 0

RECURSIVE inferType(_)
inferType(x) ==
  IF x.k = "Parameter" THEN x.type
  ELSE IF x.k = "date" THEN 1184
  ELSE IF x.k = "buffer" THEN 17
  ELSE IF x.k = "boolean" THEN 16
  ELSE IF x.k = "bigint" THEN 20
  ELSE IF x.k = "array"
    THEN inferType(IF x.xs = <<>> THEN Undefined ELSE x.xs[1])
  ELSE inferScalarType(x)

\* "" + x for a number.
NumberToString(x) ==
  IF x.nan THEN <<"N", "a", "N">>
  ELSE (IF x.neg THEN <<"-">> ELSE <<>>) \o NatToChars(x.int)
       \o (IF x.frac = <<>> THEN <<>> ELSE <<".">> \o x.frac)

BigIntToString(x) == (IF x.neg THEN <<"-">> ELSE <<>>) \o NatToChars(x.int)

Pad(n, w) ==
  LET d == NatToChars(n)
  IN [i \in 1..(w - Len(d)) |-> "0"] \o d

\* Date.prototype.toISOString, for the instants of the first minute of the
\* epoch (0 <= t < 60000), where only the seconds and milliseconds vary.
DateToISOString(t) ==
  <<"1", "9", "7", "0", "-", "0", "1", "-", "0", "1", "T", "0", "0", ":",
    "0", "0", ":">> \o Pad(t \div 1000, 2) \o <<".">> \o Pad(t % 1000, 3)
  \o <<"Z">>

RECURSIVE JSONQuote(_)
JSONQuote(s) ==
  IF s = <<>> THEN <<>>
  ELSE (IF s[1] = "\"" \/ s[1] = "\\" THEN <<"\\", s[1]>> ELSE <<s[1]>>)
       \o JSONQuote(Tail(s))

\* JSON.stringify, for null, booleans, numbers, strings, arrays, plain
\* objects, Dates and Buffers (Buffer.prototype.toJSON gives
\* {type: "Buffer", data: [...]}).
RECURSIVE JSONStringify(_)
JSONStringify(x) ==
  CASE x.k = "null" -> <<"n", "u", "l", "l">>
    [] x.k = "boolean" ->
         IF x.b THEN <<"t", "r", "u", "e">> ELSE <<"f", "a", "l", "s", "e">>
    [] x.k = "number" ->
         IF x.nan THEN <<"n", "u", "l", "l">> ELSE NumberToString(x)
    [] x.k = "string" -> <<"\"">> \o JSONQuote(x.s) \o <<"\"">>
    [] x.k = "date" -> <<"\"">> \o DateToISOString(x.t) \o <<"\"">>
    [] x.k = "array" ->
         <<"[">> \o Join([i \in 1..Len(x.xs) |-> JSONStringify(x.xs[i])], <<",">>)
         \o <<"]">>
    [] x.k = "buffer" ->
         <<"{", "\"", "t", "y", "p", "e", "\"", ":", "\"", "B", "u", "f", "f",
           "e", "r", "\"", ",", "\"", "d", "a", "t", "a", "\"", ":", "[">>
         \o Join([i \in 1..Len(x.bytes) |-> NatToChars(x.bytes[i])], <<",">>)
         \o <<"]", "}">>
    [] x.k = "object" ->
         <<"{">>
         \o Join([i \in 1..Len(x.keys) |->
                    <<"\"">> \o JSONQuote(x.keys[i]) \o <<"\"", ":">>
                    \o JSONStringify(x.vals[i])], <<",">>)
         \o <<"}">>

\* serialize returns a string, or undefined for a value no case handles; a
\* Date that is invalid makes toISOString throw a RangeError.
RECURSIVE serialize(_)
serialize(value) ==
  LET x == IF value.k = "Parameter" THEN value.value ELSE value
  IN CASE typeof(x) = "string" -> x
       [] typeof(x) = "number" -> Str(NumberToString(x))
       [] typeof(x) = "boolean" -> Str(IF x.b THEN <<"t">> ELSE <<"f">>)
       [] typeof(x) = "bigint" -> Str(BigIntToString(x))
       [] typeof(x) = "object" ->
            IF x.k = "date"
              THEN IF x.ok THEN Str(DateToISOString(x.t)) ELSE Throw("RangeError")
            ELSE IF x.k = "array"
              \* Array.prototype.join prints an undefined element as "".
              THEN Str(<<"{">>
                       \o Join([i \in 1..Len(x.xs) |->
                                  LET e == serialize(x.xs[i])
                                  IN IF e.k = "string" THEN e.s ELSE <<>>],
                               <<",">>)
                       \o <<"}">>)
            ELSE Str(JSONStringify(x))
       [] OTHER -> Undefined

(***************************************************************************)
(* Text to value: the conversions deserialize relies on                    *)
(***************************************************************************)
RECURSIVE Trim(_)
Trim(s) ==
  IF s # <<>> /\ s[1] = " " THEN Trim(Tail(s))
  ELSE IF s # <<>> /\ s[Len(s)] = " " THEN Trim(SubSeq(s, 1, Len(s) - 1))
  ELSE s

RECURSIVE StripZeros(_)
StripZeros(f) ==
  IF f # <<>> /\ f[Len(f)] = "0" THEN StripZeros(SubSeq(f, 1, Len(f) - 1))
  ELSE f

\* Offset (0-based) of the first c in s, or Len(s) when there is none.
RECURSIVE IndexOf(_, _, _)
IndexOf(s, c, i) ==
  IF i >= Len(s) \/ s[i + 1] = c THEN i ELSE IndexOf(s, c, i + 1)

\* The unary plus on a string (StringToNumber): white space is trimmed, the
\* empty text is 0, a signed decimal literal is its value, anything else is
\* NaN.  Exponents, radix prefixes and "Infinity" are left out: no text of
\* this model holds them.
ToNumber(s) ==
  LET t == Trim(s)
      signed == t # <<>> /\ t[1] \in {"-", "+"}
      body == IF signed THEN Tail(t) ELSE t
      dot == IndexOf(body, ".", 0)
      ip == SubSeq(body, 1, dot)
      fp == SubSeq(body, dot + 2, Len(body))
  IN IF t = <<>> THEN IntNum(0)
     ELSE IF AllDigits(ip) /\ AllDigits(fp) /\ Len(ip) + Len(fp) > 0
       THEN Num(signed /\ t[1] = "-", CharsToNat(ip), StripZeros(fp))
     ELSE NaN

\* BigInt(string): the empty text is 0n, a signed integer literal its value,
\* anything else a SyntaxError.
StringToBigInt(s) ==
  LET t == Trim(s)
      signed == t # <<>> /\ t[1] \in {"-", "+"}
      body == IF signed THEN Tail(t) ELSE t
  IN IF t = <<>> THEN BigInt(0)
     ELSE IF body # <<>> /\ AllDigits(body)
       THEN [k |-> "bigint", neg |-> t[1] = "-" /\ CharsToNat(body) # 0,
             int |-> CharsToNat(body)]
     ELSE Throw("SyntaxError")

\* new Date(string), for the texts toISOString gives within the first minute
\* of the epoch; any other text of this model is no date (Invalid Date).
ParseDate(s) ==
  LET pre == SubSeq(DateToISOString(0), 1, 17)
  IN IF /\ Len(s) = 24
        /\ SubSeq(s, 1, 17) = pre
        /\ AllDigits(SubSeq(s, 18, 19)) /\ s[20] = "."
        /\ AllDigits(SubSeq(s, 21, 23)) /\ s[24] = "Z"
        /\ CharsToNat(SubSeq(s, 18, 19)) < 60
       THEN Date(1000 * CharsToNat(SubSeq(s, 18, 19)) + CharsToNat(SubSeq(s, 21, 23)))
     ELSE InvalidDate

HexDigits == <<"0", "1", "2", "3", "4", "5", "6", "7", "8", "9",
               "a", "b", "c", "d", "e", "f">>
HexUpper == <<"0", "1", "2", "3", "4", "5", "6", "7", "8", "9",
              "A", "B", "C", "D", "E", "F">>
IsHex(c) == \E d \in 1..16 : HexDigits[d] = c \/ HexUpper[d] = c
HexVal(c) == (CHOOSE d \in 1..16 : HexDigits[d] = c \/ HexUpper[d] = c) - 1

\* Buffer.from(text, "hex"): bytes of the leading pairs of hex digits; the
\* decoding stops at the first pair that is not two hex digits.
RECURSIVE HexDecode(_)
HexDecode(s) ==
  IF Len(s) >= 2 /\ IsHex(s[1]) /\ IsHex(s[2])
    THEN <<16 * HexVal(s[1]) + HexVal(s[2])>> \o HexDecode(SubSeq(s, 3, Len(s)))
  ELSE <<>>

\* JSON.parse by recursive descent.  Each parser takes the text and a 0-based
\* offset and returns [ok, v, i]: the value and the offset after it.
RECURSIVE SkipWs(_, _)
SkipWs(x, i) == IF i < Len(x) /\ x[i + 1] = " " THEN SkipWs(x, i + 1) ELSE i

JFail == [ok |-> FALSE, v |-> Null, i |-> 0]
JOk(v, i) == [ok |-> TRUE, v |-> v, i |-> i]

RECURSIVE DigitRun(_, _)
DigitRun(x, i) ==
  IF i < Len(x) /\ IsDigit(x[i + 1]) THEN DigitRun(x, i + 1) ELSE i

JParseNumber(x, i) ==
  LET neg == i < Len(x) /\ x[i + 1] = "-"
      a == IF neg THEN i + 1 ELSE i
      b == DigitRun(x, a)
      hasFrac == b < Len(x) /\ x[b + 1] = "."
      c == IF hasFrac THEN DigitRun(x, b + 1) ELSE b
  IN IF b = a \/ (hasFrac /\ c = b + 1) \/ (b - a > 1 /\ x[a + 1] = "0")
       THEN JFail
     ELSE JOk(Num(neg, CharsToNat(SubSeq(x, a + 1, b)),
                  IF hasFrac THEN StripZeros(SubSeq(x, b + 2, c)) ELSE <<>>), c)

\* The characters of a string literal from offset i (after the opening
\* quote) to its closing quote; \" \\ and \/ are the escapes of this model.
RECURSIVE JParseString(_, _, _)
JParseString(x, i, acc) ==
  IF i >= Len(x) THEN JFail
  ELSE IF x[i + 1] = "\"" THEN JOk(Str(acc), i + 1)
  ELSE IF x[i + 1] = "\\"
    THEN IF i + 1 < Len(x) /\ x[i + 2] \in {"\"", "\\", "/"}
           THEN JParseString(x, i + 2, Append(acc, x[i + 2]))
         ELSE JFail
  ELSE JParseString(x, i + 1, Append(acc, x[i + 1]))

RECURSIVE JParseValue(_, _), JParseElements(_, _, _), JParseMembers(_, _, _, _)
JParseValue(x, i0) ==
  LET i == SkipWs(x, i0)
  IN IF i >= Len(x) THEN JFail
     ELSE IF HasAt(x, i, <<"n", "u", "l", "l">>) THEN JOk(Null, i + 4)
     ELSE IF HasAt(x, i, <<"t", "r", "u", "e">>) THEN JOk(Bool(TRUE), i + 4)
     ELSE IF HasAt(x, i, <<"f", "a", "l", "s", "e">>) THEN JOk(Bool(FALSE), i + 5)
     ELSE IF x[i + 1] = "\"" THEN JParseString(x, i + 1, <<>>)
     ELSE IF x[i + 1] = "["
       THEN LET j == SkipWs(x, i + 1)
            IN IF j < Len(x) /\ x[j + 1] = "]" THEN JOk(Arr(<<>>), j + 1)
               ELSE JParseElements(x, j, <<>>)
     ELSE IF x[i + 1] = "{"
       THEN LET j == SkipWs(x, i + 1)
            IN IF j < Len(x) /\ x[j + 1] = "}" THEN JOk(Obj(<<>>, <<>>), j + 1)
               ELSE JParseMembers(x, j, <<>>, <<>>)
     ELSE IF x[i + 1] = "-" \/ IsDigit(x[i + 1]) THEN JParseNumber(x, i)
     ELSE JFail

JParseElements(x, i, acc) ==
  LET r == JParseValue(x, i)
      j == SkipWs(x, r.i)
  IN IF ~r.ok \/ j >= Len(x) THEN JFail
     ELSE IF x[j + 1] = "," THEN JParseElements(x, j + 1, Append(acc, r.v))
     ELSE IF x[j + 1] = "]" THEN JOk(Arr(Append(acc, r.v)), j + 1)
     ELSE JFail

JParseMembers(x, i0, keys, vals) ==
  LET i == SkipWs(x, i0)
      key == IF i < Len(x) /\ x[i + 1] = "\"" THEN JParseString(x, i + 1, <<>>)
             ELSE JFail
      c == SkipWs(x, key.i)
      r == IF key.ok /\ c < Len(x) /\ x[c + 1] = ":" THEN JParseValue(x, c + 1)
           ELSE JFail
      j == SkipWs(x, r.i)
  IN IF ~r.ok \/ j >= Len(x) THEN JFail
     ELSE IF x[j + 1] = ","
       THEN JParseMembers(x, j + 1, Append(keys, key.v.s), Append(vals, r.v))
     ELSE IF x[j + 1] = "}"
       THEN JOk(Obj(Append(keys, key.v.s), Append(vals, r.v)), j + 1)
     ELSE JFail

JSONParse(x) ==
  LET r == JParseValue(x, 0)
  IN IF r.ok /\ SkipWs(x, r.i) = Len(x) THEN r.v ELSE Throw("SyntaxError")

(***************************************************************************)
(* The array text parser (index.ts 469-531) and deserialize (56-86)        *)
(***************************************************************************)
\* The scratch record as the module first creates it; p and char are null.
InitArrayParserState ==
  [i |-> 0, p |-> "null", char |-> "null", str |-> <<>>, quoted |-> FALSE,
   last |-> 0]

\* Array.prototype.flat(): the elements that are arrays are spliced in.
RECURSIVE Flat(_)
Flat(xs) ==
  IF xs = <<>> THEN <<>>
  ELSE (IF xs[1].k = "array" THEN xs[1].xs ELSE <<xs[1]>>) \o Flat(Tail(xs))

RECURSIVE deserialize(_, _, _), arrayParserLoop(_, _, _, _),
          ArrayLoopFrom(_, _, _, _, _)

\* parser ? parser(text) : text, the parser being (x) => deserialize(x, 0)
\* ("deserialize") or absent ("none").
ApplyParser(parser, s, text) ==
  IF parser = "none" THEN Str(text) ELSE deserialize(s, text, 0).v

\* The statement after the for loop of arrayParserLoop.
ArrayLoopEnd(s, x, parser, xs) ==
  [s |-> s,
   xs |-> IF s.last < s.i
            THEN Append(xs, ApplyParser(parser, s, Slice(x, s.last, s.i + 1)))
          ELSE xs]

\* The for loop of arrayParserLoop from its test on, xs being the elements
\* pushed so far.  Returns the scratch record and the elements.
ArrayLoopFrom(s0, x, parser, typarray, xs) ==
  IF s0.i >= Len(x) THEN ArrayLoopEnd(s0, x, parser, xs)
  ELSE
    LET c == x[s0.i + 1]
        s == [s0 EXCEPT !.char = c]
        delimiter == IF typarray = 1020 THEN ";" ELSE ","
        \* s.p = s.char at the end of the body, then s.i++ and the test
        Step(sn, xsn) ==
          ArrayLoopFrom([sn EXCEPT !.p = sn.char, !.i = sn.i + 1],
                        x, parser, typarray, xsn)
    IN IF s.quoted THEN
         IF c = "\\" THEN
           \* s.str += x[++s.i]; past the end x[i] is undefined
           Step([s EXCEPT !.i = s.i + 1,
                          !.str = s.str \o (IF s.i + 1 < Len(x) THEN <<x[s.i + 2]>>
                                            ELSE <<"u", "n", "d", "e", "f", "i",
                                                   "n", "e", "d">>)],
                xs)
         ELSE IF c = "\"" THEN
           Step([s EXCEPT !.str = <<>>,
                          !.quoted = s.i + 1 < Len(x) /\ x[s.i + 2] = "\"",
                          !.last = s.i + 2],
                Append(xs, ApplyParser(parser, s, s.str)))
         ELSE Step([s EXCEPT !.str = s.str \o <<c>>], xs)
       ELSE IF c = "\"" THEN Step([s EXCEPT !.quoted = TRUE], xs)
       ELSE IF c = "{" THEN
         LET r == arrayParserLoop([s EXCEPT !.i = s.i + 1, !.last = s.i + 1],
                                  x, parser, typarray)
         IN Step(r.s, Append(xs, Arr(r.xs)))
       ELSE IF c = "}" THEN
         \* break: neither s.p = s.char nor s.i++ runs
         ArrayLoopEnd([s EXCEPT !.quoted = FALSE, !.last = s.i + 1], x, parser,
                      IF s.last < s.i
                        THEN Append(xs, ApplyParser(parser, s, Slice(x, s.last, s.i)))
                      ELSE xs)
       ELSE IF c = delimiter /\ s.p # "}" /\ s.p # "\"" THEN
         Step([s EXCEPT !.last = s.i + 1],
              Append(xs, ApplyParser(parser, s, Slice(x, s.last, s.i))))
       ELSE Step(s, xs)

arrayParserLoop(s, x, parser, typarray) ==
  ArrayLoopFrom(s, x, parser, typarray, <<>>)

\* arrayParser resets the scan position and the element offset, and nothing
\* else, of the scratch record s it shares with every other parse.
arrayParser(s, x, parser, typarray) ==
  arrayParserLoop([s EXCEPT !.i = 0, !.last = 0], x, parser, typarray)

\* deserialize(value, dataTypeId), with the scratch record s the array case
\* works on: returns the value (v) and the scratch record it leaves (s).
deserialize(s, value, dataTypeId) ==
  IF dataTypeId = 1007
    THEN LET r == arrayParser(s, value, "deserialize", 0)
         IN [s |-> r.s, v |-> Arr(Flat(r.xs))]
  ELSE
    [s |-> s,
     v |-> CASE dataTypeId \in {0, 21, 23, 26, 700, 701} -> ToNumber(value)
             [] dataTypeId = 17 -> Buf(HexDecode(Slice(value, 2, Len(value))))
             [] dataTypeId = 16 -> Bool(value = <<"t">>)
             [] dataTypeId = 20 -> StringToBigInt(value)
             [] dataTypeId = 25 -> Str(value)
             [] dataTypeId \in {1184, 1082, 1114} -> ParseDate(value)
             [] dataTypeId \in {3802, 114} -> JSONParse(value)
             [] OTHER -> Str(value)]

(***************************************************************************)
(* Specification SpecCodec: a native value is serialized and tagged as     *)
(* handleValue and Query.prepare do, then deserialized under that tag.     *)
(***************************************************************************)
CodecStrings ==
  { <<>>, <<"t">>, <<"f">>, <<"1">>, <<"h", "i">>, <<"{", "}">>,
    <<"n", "u", "l", "l">>, <<"a", "\"", "b">>, <<"\\", "x", "a", "b">> }

CodecValues ==
  { Null, Bool(TRUE), Bool(FALSE) }
  \cup { IntNum(n) : n \in {0, 1, 30, -5, 1234567} }
  \cup { Num(FALSE, 1, <<"5">>), Num(TRUE, 0, <<"2", "5">>), Num(FALSE, 50, <<"0", "1">>) }
  \cup { BigInt(n) : n \in {0, 7, -12, 2000000000} }
  \cup { Str(c) : c \in CodecStrings }
  \cup { Date(t) : t \in {0, 1, 1234, 59999} }
  \cup { Buf(b) : b \in { <<>>, <<1, 2>>, <<171>>, <<0, 255>> } }
  \cup { Obj(<<>>, <<>>),
         Obj(<< <<"x">> >>, <<IntNum(1)>>),
         Obj(<< <<"x">> >>, <<Str(<<"y">>)>>),
         Obj(<< <<"a">>, <<"b">> >>, <<Arr(<<IntNum(1), Bool(TRUE)>>), Null>>),
         Obj(<< <<"k", "\"">> >>, <<Obj(<< <<"n">> >>, <<Num(TRUE, 2, <<"5">>)>>)>>) }
  \cup { Arr(<<>>),
         Arr(<<IntNum(1), IntNum(2), IntNum(3)>>),
         Arr(<<Str(<<"a">>), Str(<<"b">>)>>),
         Arr(<<Arr(<<IntNum(2)>>), Arr(<<IntNum(4)>>)>>),
         Arr(<<Bool(TRUE)>>),
         Arr(<<Null>>) }

CodecInit ==
  /\ heap = <<>>
  /\ requests = <<>>
  /\ attached = {}
  /\ begun = {}
  /\ arrayParserState = InitArrayParserState
  /\ \E v \in CodecValues : last = [op |-> "value", v |-> v]

\* params: parameters.map(serialize), types: inferType(x)  (prepare, handleValue)
Serialize ==
  /\ last.op = "value"
  /\ last' = [op |-> "serialize", v |-> last.v, text |-> serialize(last.v),
              type |-> inferType(last.v)]
  /\ UNCHANGED <<heap, requests, attached, begun, arrayParserState>>

\* processResult: deserialize(value, dataTypeId) on the cell text
Deserialize ==
  /\ last.op = "serialize"
  /\ last.text.k = "string"
  /\ LET r == deserialize(arrayParserState, last.text.s, last.type)
     IN /\ last' = [op |-> "deserialize", v |-> last.v, text |-> last.text,
                    type |-> last.type, out |-> r.v]
        /\ arrayParserState' = r.s
  /\ UNCHANGED <<heap, requests, attached, begun>>

CodecNext == Serialize \/ Deserialize

SpecCodec == CodecInit /\ [][CodecNext]_vars

(***************************************************************************)
(* Specification SpecArray: array literals are parsed one after another    *)
(* on the one scratch record.                                              *)
(***************************************************************************)
\* The longest text the scratch record's pending string may hold before a
\* further parse is started.
MaxPending == 8

ArrayLiterals ==
  { <<"{", "1", ",", "2", ",", "3", "}">>,
    <<"{", "{", "1", ",", "2", "}", ",", "{", "3", ",", "4", "}", "}">>,
    <<"{", "}">>,
    <<"{", "\"", "a", "\"", "\"", "b", "\"", "}">>,
    <<"{", "\"", "a", "\\", "\"", "b", "\"", "}">>,
    <<"{", "\"", "a", ",", "b", "\"", ",", "c", "}">>,
    <<"{", "\"", "\"", "}">>,
    <<"{", "1", ";", "2", "}">> }

ArrayInit ==
  /\ heap = <<>>
  /\ requests = <<>>
  /\ attached = {}
  /\ begun = {}
  /\ arrayParserState = InitArrayParserState
  /\ last = [op |-> "none"]

\* arrayParser(x, parser, typarray).flat(), as deserialize's array case does
\* with its own parser; first tells whether no parse came before this one.
ArrayParse(x, parser, typarray) ==
  /\ Len(arrayParserState.str) <= MaxPending
  /\ LET r == arrayParser(arrayParserState, x, parser, typarray)
     IN /\ arrayParserState' = r.s
        /\ last' = [op |-> "arrayParser", x |-> x, parser |-> parser,
                    typarray |-> typarray, out |-> Arr(Flat(r.xs)),
                    first |-> last.op = "none"]
  /\ UNCHANGED <<heap, requests, attached, begun>>

\* deserialize(x, 1007)
DeserializeArray(x) ==
  /\ Len(arrayParserState.str) <= MaxPending
  /\ LET r == deserialize(arrayParserState, x, 1007)
     IN /\ arrayParserState' = r.s
        /\ last' = [op |-> "deserialize", x |-> x, parser |-> "deserialize",
                    typarray |-> 0, out |-> r.v, first |-> last.op = "none"]
  /\ UNCHANGED <<heap, requests, attached, begun>>

ArrayNext ==
  \E x \in ArrayLiterals :
    \/ \E parser \in {"none", "deserialize"}, typarray \in {0, 1020} :
         ArrayParse(x, parser, typarray)
    \/ DeserializeArray(x)

SpecArray == ArrayInit /\ [][ArrayNext]_vars

(***************************************************************************)
(* The value wrappers (index.ts 173-298) and the sql function (137-145)    *)
(***************************************************************************)
escapeIdentifier(str) ==
  LET Esc(c) == IF c = "\"" THEN <<"\"", "\"">>
                ELSE IF c = "." THEN <<"\"", ".", "\"">>
                ELSE <<c>>
      F[i \in 0..Len(str)] == IF i = 0 THEN <<>> ELSE F[i - 1] \o Esc(str[i])
  IN <<"\"">> \o F[Len(str)] \o <<"\"">>

\* new Parameter(value): the type is inferred, and for an array value the
\* element types are kept (array; hasArray tells x.array from null).
Parameter(value) ==
  [k |-> "Parameter", value |-> value, type |-> inferType(value),
   hasArray |-> value.k = "array",
   array |-> IF value.k = "array"
               THEN [i \in 1..Len(value.xs) |-> inferType(value.xs[i])]
             ELSE <<>>]

\* new Identifier(value), value a string's text.
Identifier(str) == [k |-> "Identifier", value |-> escapeIdentifier(str)]

\* new Builder(first, rest)
Builder(first, rest) == [k |-> "Builder", first |-> first, rest |-> rest]

\* A Query placed as a value is a reference to the object, by its id.
QueryRef(id) == [k |-> "Query", id |-> id]

IsWrapper(x) == x.k \in {"Parameter", "Identifier", "Query", "Builder"}

\* new Query(strings, args, execute): the constructor wraps each plain value
\* in a Parameter; the promise starts pending and fragment is not set.
Query(strings, args) ==
  [strings |-> strings,
   args |-> [i \in 1..Len(args) |->
               IF IsWrapper(args[i]) THEN args[i] ELSE Parameter(args[i])],
   fragment |-> FALSE,
   state |-> "pending"]

\* sql(first, ...rest) called as a plain function: an Identifier for a lone
\* string, a Builder for anything else.
sqlCall(first, rest) ==
  IF first.k = "string" /\ rest = <<>> THEN Identifier(first.s)
  ELSE Builder(first, rest)

(***************************************************************************)
(* Composition (index.ts 221-238, 289-381, 436-444, 533-634)               *)
(*                                                                         *)
(* The accumulators of one prepare() call are a record a: the parameters   *)
(* and types arrays, err (the exception thrown, "none" while there is      *)
(* none) and marked (the queries whose fragment flag the call has set).    *)
(* Each function returns [s, a]: the text it returns and the accumulators. *)
(***************************************************************************)
EmptyAcc == [parameters |-> <<>>, types |-> <<>>, err |-> "none", marked |-> {}]
Ok(s, a) == [s |-> s, a |-> a]
Fail(a, e) == [s |-> <<>>, a |-> [a EXCEPT !.err = e]]

\* The options Query.prepare passes: {}.  options.transform is undefined.
PrepareOptions == [transform |-> Undefined]

RECURSIVE firstIsString(_)
firstIsString(x) ==
  IF x.k = "array"
    THEN firstIsString(IF x.xs = <<>> THEN Undefined ELSE x.xs[1])
  ELSE IF x.k = "string" THEN 1009 ELSE 0

\* The type handleValue pushes for a Parameter x.
ParameterType(x) ==
  IF x.hasArray
    THEN LET idx == IF x.type # 0 THEN x.type ELSE inferType(x.value)
             elem == IF idx < Len(x.array) THEN x.array[idx + 1] ELSE 0
         IN IF elem # 0 THEN elem
            ELSE IF x.type # 0 THEN x.type
            ELSE firstIsString(x.value)
  ELSE x.type

\* PushValue with the placeholder numbered by the length before the push.
PushValueFromZero(x, a) ==
  LET a1 == [a EXCEPT
               !.parameters = Append(@, IF x.k = "Parameter" THEN x.value ELSE x),
               !.types = Append(@, IF x.k = "Parameter" THEN ParameterType(x)
                                   ELSE inferType(x))]
  IN Ok(<<"$">> \o NatToChars(Len(a.types)), a1)

\* types.push(parameters.push(..), type) and the placeholder "$" + idx
PushValue(x, a) ==
  LET a1 == [a EXCEPT
               !.parameters = Append(@, IF x.k = "Parameter" THEN x.value ELSE x),
               !.types = Append(@, IF x.k = "Parameter" THEN ParameterType(x)
                                   ELSE inferType(x))]
  IN Ok(<<"$">> \o NatToChars(Len(a1.types)), a1)

\* handleValue passing null for an undefined value.
handleValueNullForUndefined(x, a, options) ==
  LET value == IF x.k = "Parameter" THEN x.value ELSE x
  IN IF value.k = "undefined"
       THEN PushValue(IF x.k = "Parameter" THEN [x EXCEPT !.value = Null] ELSE Null, a)
     ELSE PushValue(x, a)

\* handleValue.  With no options.transform, reading options.transform.undefined
\* throws a TypeError.  With one, a Parameter's value is replaced but the
\* local value stays undefined, so the Error is thrown all the same; a bare
\* value is replaced by the substitute.
handleValue(x, a, options) ==
  LET value == IF x.k = "Parameter" THEN x.value ELSE x
  IN IF value.k = "undefined"
       THEN IF options.transform.k = "undefined" THEN Fail(a, "TypeError")
            ELSE IF x.k = "Parameter" \/ options.transform.undefined.k = "undefined"
              THEN Fail(a, "Error: Undefined values are not allowed")
            ELSE PushValue(options.transform.undefined, a)
     ELSE PushValue(x, a)

\* escapeIdentifiers(xs, {transform: {column}}): the parameter destructuring
\* throws when options.transform is undefined; xs.map and str.replace throw
\* when xs is no array or an element no string.
escapeIdentifiers(xs, a, options) ==
  IF options.transform.k = "undefined" THEN Fail(a, "TypeError")
  ELSE IF xs.k # "array" \/ \E i \in 1..Len(xs.xs) : xs.xs[i].k # "string"
    THEN Fail(a, "TypeError")
  ELSE Ok(Join([i \in 1..Len(xs.xs) |-> escapeIdentifier(xs.xs[i].s)], <<",">>), a)

\* obj[key]: undefined when absent; a TypeError on null and undefined.
GetProp(obj, key) ==
  CASE obj.k \in {"undefined", "null"} -> Throw("TypeError")
    [] obj.k = "array" ->
         IF key # <<>> /\ AllDigits(key) /\ CharsToNat(key) < Len(obj.xs)
              /\ NatToChars(CharsToNat(key)) = key
           THEN obj.xs[CharsToNat(key) + 1] ELSE Undefined
    [] obj.k = "string" ->
         IF key # <<>> /\ AllDigits(key) /\ CharsToNat(key) < Len(obj.s)
              /\ NatToChars(CharsToNat(key)) = key
           THEN Str(<<obj.s[CharsToNat(key) + 1]>>) ELSE Undefined
    [] obj.k = "object" ->
         IF \E i \in 1..Len(obj.keys) : obj.keys[i] = key
           THEN obj.vals[CHOOSE i \in 1..Len(obj.keys) : obj.keys[i] = key]
         ELSE Undefined
    [] OTHER -> Undefined

\* The text a value used as a property key turns into.
PropKey(c) ==
  CASE c.k = "string" -> c.s
    [] c.k = "number" -> NumberToString(c)
    [] OTHER -> JSONStringify(c)

\* Object.keys(x), as an array of strings; a TypeError on null and undefined.
ObjectKeys(x) ==
  CASE x.k \in {"undefined", "null"} -> Throw("TypeError")
    [] x.k = "array" -> Arr([i \in 1..Len(x.xs) |-> Str(NatToChars(i - 1))])
    [] x.k = "string" -> Arr([i \in 1..Len(x.s) |-> Str(NatToChars(i - 1))])
    [] x.k = "object" -> Arr([i \in 1..Len(x.keys) |-> Str(x.keys[i])])
    [] OTHER -> Arr(<<>>)

(***************************************************************************)
(* Keyword dispatch: the regular expressions of builders (610-613)         *)
(***************************************************************************)
UpperCase == <<"A", "B", "C", "D", "E", "F", "G", "H", "I", "J", "K", "L", "M",
               "N", "O", "P", "Q", "R", "S", "T", "U", "V", "W", "X", "Y", "Z">>
LowerCase == <<"a", "b", "c", "d", "e", "f", "g", "h", "i", "j", "k", "l", "m",
               "n", "o", "p", "q", "r", "s", "t", "u", "v", "w", "x", "y", "z">>
LowerOf ==
  [c \in {"A", "B", "C", "D", "E", "F", "G", "H", "I", "J", "K", "L", "M",
          "N", "O", "P", "Q", "R", "S", "T", "U", "V", "W", "X", "Y", "Z"} |->
     LowerCase[CHOOSE i \in 1..26 : UpperCase[i] = c]]
Lower(c) == IF c \in DOMAIN LowerOf THEN LowerOf[c] ELSE c

\* Whether text x holds w at 0-based offset i, letter case ignored (flag i).
HasAtCI(x, i, w) ==
  /\ i + Len(w) <= Len(x)
  /\ \A j \in 1..Len(w) : Lower(x[i + j]) = Lower(w[j])

\* The class [\s(] of the expression.
IsBoundary(c) == c \in {" ", "\t", "\n", "\r", "("}

\* Whether ((?:^|[\s(])kw(?:$|[\s(]))(?![\s\S]*\1) matches at offset i, with
\* the alternative pre ("^" or "b") before the keyword and post ("$" or "b")
\* after it: the look-ahead rejects a match whose captured text occurs again
\* after it.
RegexMatchesAt(x, kw, i, pre, post) ==
  LET ks == IF pre = "^" THEN i ELSE i + 1
      ke == ks + Len(kw)
      end == IF post = "$" THEN ke ELSE ke + 1
      cap == SubSeq(x, i + 1, end)
  IN /\ IF pre = "^" THEN i = 0 ELSE i < Len(x) /\ IsBoundary(x[i + 1])
     /\ HasAtCI(x, ks, kw)
     /\ IF post = "$" THEN ke = Len(x) ELSE ke < Len(x) /\ IsBoundary(x[ke + 1])
     /\ ~\E j \in end..Len(x) : HasAtCI(x, j, cap)

\* String.prototype.search: the least offset with a match, or -1.
Search(x, kw) ==
  LET hits == {i \in 0..Len(x) :
                 \E pre \in {"^", "b"}, post \in {"$", "b"} :
                   RegexMatchesAt(x, kw, i, pre, post)}
  IN IF hits = {} THEN -1 ELSE CHOOSE i \in hits : \A j \in hits : i <= j

\* builders: the keywords in the order of Object.entries, each with the
\* function it maps to.
builders ==
  << [kw |-> <<"v", "a", "l", "u", "e", "s">>, fn |-> "values"],
     [kw |-> <<"i", "n">>, fn |-> "in"],
     [kw |-> <<"s", "e", "l", "e", "c", "t">>, fn |-> "select"],
     [kw |-> <<"a", "s">>, fn |-> "select"],
     [kw |-> <<"r", "e", "t", "u", "r", "n", "i", "n", "g">>, fn |-> "select"],
     [kw |-> <<"(">>, fn |-> "select"],
     [kw |-> <<"u", "p", "d", "a", "t", "e">>, fn |-> "update"],
     [kw |-> <<"i", "n", "s", "e", "r", "t">>, fn |-> "insert"] >>

\* builders.map(search).sort((a, b) => a.i - b.i).pop(): the sort is stable,
\* so of the entries with the greatest offset the last one is popped.
Keyword(before) ==
  LET at == {[n |-> n, i |-> Search(before, builders[n].kw)] : n \in 1..Len(builders)}
      top == CHOOSE a \in at : \A b \in at : b.i < a.i \/ (b.i = a.i /\ b.n <= a.n)
  IN [fn |-> builders[top.n].fn, i |-> top.i]

(***************************************************************************)
(* stringify, stringifyValue, fragment, Builder.build and the builders.    *)
(* h is the heap, through which a Query value is reached by its id.        *)
(***************************************************************************)
RECURSIVE stringify(_, _, _, _), StringifyFrom(_, _, _, _, _, _),
          StringifyStep(_, _, _, _, _, _),
          stringifyValue(_, _, _, _, _), fragment(_, _, _, _),
          FragmentList(_, _, _, _, _, _), FragmentStep(_, _, _, _, _, _),
          build(_, _, _, _, _), BuildWith(_, _, _, _, _),
          values(_, _, _, _, _), valuesBuilder(_, _, _, _, _),
          RowsFrom(_, _, _, _, _, _, _), RowsStep(_, _, _, _, _, _, _),
          RowFrom(_, _, _, _, _, _, _), RowStep(_, _, _, _, _, _, _),
          select(_, _, _, _, _), SelectFrom(_, _, _, _, _, _, _),
          SelectStep(_, _, _, _, _, _, _),
          update(_, _, _, _, _), UpdateFrom(_, _, _, _, _, _, _),
          UpdateStep(_, _, _, _, _, _, _),
          insert(_, _, _, _, _)

KwValues == <<"v", "a", "l", "u", "e", "s">>

\* rest.length ? rest.flat() : Object.keys(of)
Columns(rest, of) == IF rest # <<>> THEN Arr(Flat(rest)) ELSE ObjectKeys(of)

\* The for loop of stringify from index i on (1-based: the value is args[i],
\* the text after it strings[i + 1]).
StringifyFrom(h, q, i, string, a, options) ==
  IF i >= Len(q.strings) THEN Ok(string, a)
  ELSE StringifyStep(h, q, i, string,
                     stringifyValue(h, string,
                                    IF i <= Len(q.args) THEN q.args[i] ELSE Undefined,
                                    a, options),
                     options)

\* string += r + q.strings[i + 1], r being what stringifyValue returned
StringifyStep(h, q, i, string, r, options) ==
  IF r.a.err # "none" THEN r
  ELSE StringifyFrom(h, q, i + 1, string \o r.s \o q.strings[i + 1], r.a, options)

\* stringify(q, q.strings[0], q.args[0], parameters, types, options)
stringify(h, q, a, options) == StringifyFrom(h, q, 1, q.strings[1], a, options)

\* value.reduce((acc, x) => acc + " " + fragment(x, ...), "")
FragmentList(h, xs, n, text, a, options) ==
  IF n > Len(xs) THEN Ok(text, a)
  ELSE IF xs[n].k # "Query" THEN Fail(a, "TypeError")
  ELSE FragmentStep(h, xs, n, text, fragment(h, xs[n].id, a, options), options)

\* acc + " " + r, r being what fragment returned
FragmentStep(h, xs, n, text, r, options) ==
  IF r.a.err # "none" THEN r
  ELSE FragmentList(h, xs, n + 1, text \o <<" ">> \o r.s, r.a, options)

stringifyValue(h, string, value, a, options) ==
  IF value.k = "Builder" THEN build(h, value, string, a, options)
  ELSE IF value.k = "Query" THEN fragment(h, value.id, a, options)
  ELSE IF value.k = "Identifier" THEN Ok(value.value, a)
  ELSE IF value.k = "array" /\ value.xs # <<>> /\ value.xs[1].k = "Query"
    THEN FragmentList(h, value.xs, 1, <<>>, a, options)
  ELSE handleValue(value, a, options)

\* fragment composing q on parameters and types arrays of its own.
FragmentOnFreshArrays(h, id, a, options) ==
  stringify(h, h[id], [EmptyAcc EXCEPT !.marked = a.marked \cup {id}], options)

\* fragment sets q.fragment and composes q on the accumulators of the caller
fragment(h, id, a, options) ==
  stringify(h, h[id], [a EXCEPT !.marked = @ \cup {id}], options)

\* The in builder returning what values returned as it is.
InResultAsValues(x) == x

\* x === "()" ? "(null)" : x, x being what values returned
InResult(x) ==
  IF x.a.err = "none" /\ x.s = <<"(", ")">>
    THEN Ok(<<"(", "n", "u", "l", "l", ")">>, x.a)
  ELSE x

\* Builder.build(before, parameters, types, options)
build(h, b, before, a, options) == BuildWith(h, b, Keyword(before), a, options)

\* keyword.i === -1 ? escapeIdentifiers(..) : keyword.fn(..)
BuildWith(h, b, keyword, a, options) ==
  IF keyword.i = -1 THEN escapeIdentifiers(b.first, a, options)
  ELSE CASE keyword.fn = "values" -> values(h, b.first, b.rest, a, options)
         [] keyword.fn = "in" -> InResult(values(h, b.first, b.rest, a, options))
         [] keyword.fn = "select" -> select(h, b.first, b.rest, a, options)
         [] keyword.fn = "update" -> update(h, b.first, b.rest, a, options)
         [] keyword.fn = "insert" -> insert(h, b.first, b.rest, a, options)

values(h, first, rest, a, options) ==
  LET f0 == GetProp(first, <<"0">>)
      multi == f0.k = "array"
      columns == Columns(rest, IF multi THEN f0 ELSE first)
  IN IF f0.k = "throw" THEN Fail(a, "TypeError")
     \* first.map is no function when first is no array
     ELSE IF multi /\ first.k # "array" THEN Fail(a, "TypeError")
     ELSE valuesBuilder(h, IF multi THEN first.xs ELSE <<first>>, a,
                        columns.xs, options)

\* columns.map(column => stringifyValue("values", row[column], ..)).join(",")
RowFrom(h, row, columns, c, parts, a, options) ==
  IF c > Len(columns) THEN Ok(Join(parts, <<",">>), a)
  ELSE LET v == GetProp(row, PropKey(columns[c]))
       IN IF v.k = "throw" THEN Fail(a, "TypeError")
          ELSE RowStep(h, row, columns, c, parts,
                       stringifyValue(h, KwValues, v, a, options), options)

RowStep(h, row, columns, c, parts, r, options) ==
  IF r.a.err # "none" THEN r
  ELSE RowFrom(h, row, columns, c + 1, Append(parts, r.s), r.a, options)

\* first.map(row => "(" + .. + ")").join(",")
RowsFrom(h, rows, n, columns, parts, a, options) ==
  IF n > Len(rows) THEN Ok(Join(parts, <<",">>), a)
  ELSE RowsStep(h, rows, n, columns, parts,
                RowFrom(h, rows[n], columns, 1, <<>>, a, options), options)

RowsStep(h, rows, n, columns, parts, r, options) ==
  IF r.a.err # "none" THEN r
  ELSE RowsFrom(h, rows, n + 1, columns,
                Append(parts, <<"(">> \o r.s \o <<")">>), r.a, options)

valuesBuilder(h, first, a, columns, options) ==
  RowsFrom(h, first, 1, columns, <<>>, a, options)

\* The columns.map of select: the value is composed first, then
\* options.transform.column is read, which throws with no options.transform.
SelectFrom(h, first, columns, c, parts, a, options) ==
  IF c > Len(columns) THEN Ok(Join(parts, <<",">>), a)
  ELSE LET value == GetProp(first, PropKey(columns[c]))
       IN IF value.k = "throw" THEN Fail(a, "TypeError")
          ELSE SelectStep(h, first, columns, c, parts,
                          IF value.k = "Query" THEN fragment(h, value.id, a, options)
                          ELSE IF value.k = "Identifier" THEN Ok(value.value, a)
                          ELSE handleValue(value, a, options),
                          options)

\* value + " as " + escapeIdentifier(transform.column.to(column))
SelectStep(h, first, columns, c, parts, r, options) ==
  IF r.a.err # "none" THEN r
  ELSE IF options.transform.k = "undefined" \/ columns[c].k # "string"
    THEN Fail(r.a, "TypeError")
  ELSE SelectFrom(h, first, columns, c + 1,
                  Append(parts, r.s \o <<" ", "a", "s", " ">>
                                \o escapeIdentifier(columns[c].s)),
                  r.a, options)

select(h, first, rest, a, options) ==
  LET first1 == IF first.k = "string" THEN Arr(<<first>> \o rest) ELSE first
      columns == Columns(rest, first1)
  IN IF first1.k = "array" THEN escapeIdentifiers(first1, a, options)
     ELSE IF columns.k = "throw" THEN Fail(a, "TypeError")
     ELSE SelectFrom(h, first1, columns.xs, 1, <<>>, a, options)

\* The columns.map of update: options.transform.column is read first.  The
\* array it returns is joined with commas when added to the text.
UpdateFrom(h, first, columns, c, parts, a, options) ==
  IF c > Len(columns) THEN Ok(Join(parts, <<",">>), a)
  ELSE IF options.transform.k = "undefined" \/ columns[c].k # "string"
    THEN Fail(a, "TypeError")
  ELSE LET v == GetProp(first, PropKey(columns[c]))
       IN IF v.k = "throw" THEN Fail(a, "TypeError")
          ELSE UpdateStep(h, first, columns, c, parts,
                          stringifyValue(h, KwValues, v, a, options), options)

\* escapeIdentifier(transform.column.to(column)) + "=" + r
UpdateStep(h, first, columns, c, parts, r, options) ==
  IF r.a.err # "none" THEN r
  ELSE UpdateFrom(h, first, columns, c + 1,
                  Append(parts, escapeIdentifier(columns[c].s) \o <<"=">> \o r.s),
                  r.a, options)

update(h, first, rest, a, options) ==
  LET columns == Columns(rest, first)
  IN IF columns.k = "throw" THEN Fail(a, "TypeError")
     ELSE UpdateFrom(h, first, columns.xs, 1, <<>>, a, options)

\* "(" + e + ")values" + vb, e and vb being what escapeIdentifiers and
\* valuesBuilder returned
InsertResult(e, vb) ==
  IF vb.a.err # "none" THEN vb
  ELSE Ok(<<"(">> \o e.s \o <<")", "v", "a", "l", "u", "e", "s">> \o vb.s, vb.a)

insert(h, first, rest, a, options) ==
  LET of == IF first.k = "array" THEN GetProp(first, <<"0">>) ELSE first
      columns == Columns(rest, of)
      e == escapeIdentifiers(columns, a, options)
  IN IF columns.k = "throw" THEN Fail(a, "TypeError")
     ELSE IF e.a.err # "none" THEN e
     ELSE InsertResult(e, valuesBuilder(h, IF first.k = "array" THEN first.xs
                                           ELSE <<first>>,
                                        e.a, columns.xs, options))

\* { query: string, params: parameters.map(serialize), types }, r being what
\* stringify returned; or the exception thrown (k = "throw").  marked are the
\* queries flagged as fragments on the way.
PayloadOf(r) ==
  LET params == [i \in 1..Len(r.a.parameters) |-> serialize(r.a.parameters[i])]
  IN IF r.a.err # "none"
       THEN [k |-> "throw", e |-> r.a.err, marked |-> r.a.marked]
     ELSE IF \E i \in 1..Len(params) : params[i].k = "throw"
       THEN [k |-> "throw", e |-> "RangeError", marked |-> r.a.marked]
     ELSE [k |-> "payload", query |-> r.s, params |-> params,
           types |-> r.a.types, marked |-> r.a.marked]

\* Query.prepare(): fresh parameters and types arrays, options {}.
prepare(h, id) == PayloadOf(stringify(h, h[id], EmptyAcc, PrepareOptions))

(***************************************************************************)
(* Specification SpecCompose: a heap of queries, the later ones embedding  *)
(* the earlier ones, is drawn, and prepare() is called on its queries, any *)
(* number of times.                                                        *)
(***************************************************************************)
\* The most queries of a drawn heap, so the deepest nesting.
MaxQueries == 3

TBase == <<"s", "e", "l", "e", "c", "t", " ", "*", " ", "f", "r", "o", "m", " ", "u", "s", "e", "r", "s", " ", "w", "h", "e", "r", "e", " ", "n", "a", "m", "e", " ", "i", "s", " ", "n", "o", "t", " ", "n", "u", "l", "l", " ">>
TAge == <<"a", "n", "d", " ", "a", "g", "e", " ", ">", " ">>
TInsert == <<"i", "n", "s", "e", "r", "t", " ", "i", "n", "t", "o", " ", "u", "s", "e", "r", "s", " ">>
TXIn == <<"x", " ", "i", "n", " ">>
TIn == <<"i", "n", " ">>
TValuesX == <<"v", "a", "l", "u", "e", "s", " ", "x">>
TValues == <<"v", "a", "l", "u", "e", "s", " ">>
TSelect == <<"s", "e", "l", "e", "c", "t", " ">>
KName == <<"n", "a", "m", "e">>
KAge == <<"a", "g", "e">>
John == Str(<<"J", "o", "h", "n">>)

\* { name: "John", age: 30 }
JohnRecord == Obj(<<KName, KAge>>, <<John, IntNum(30)>>)

\* The queries that embed no other query.
LeafQueries ==
  { Query(<< <<>> >>, <<>>),
    Query(<<TAge, <<>>>>, <<IntNum(50)>>),
    Query(<< <<>>, <<" ">>, <<>> >>, <<John, IntNum(30)>>),
    Query(<<TSelect, <<" ">>, <<>>>>,
          <<sqlCall(Str(<<"a", ".", "b">>), <<>>), Undefined>>),
    Query(<<TSelect, <<",">>, <<>>>>,
          <<sqlCall(Str(<<"a", "\"", "b">>), <<>>), Null>>),
    Query(<< <<>>, <<>> >>, <<sqlCall(Arr(<<>>), <<>>)>>),
    Query(<<TInsert, <<>>>>, <<sqlCall(JohnRecord, <<>>)>>),
    Query(<<TIn, <<>>>>,
          <<sqlCall(Obj(<< <<"a">> >>, <<Undefined>>), <<>>)>>) }
  \cup { Query(<<TXIn, <<>>>>, <<sqlCall(b, <<>>)>>) :
           b \in {Arr(<<>>), Arr(<<IntNum(1), IntNum(2)>>), Obj(<<>>, <<>>)} }
  \cup { Query(<<TIn, <<>>>>, <<sqlCall(b, <<>>)>>) :
           b \in {Arr(<<>>), Arr(<<Arr(<<>>), Arr(<<>>)>>)} }

\* The queries that embed the query before them in the heap, query n - 1,
\* and with it perhaps an earlier one.
EmbeddingQueries(n) ==
  { Query(<<t, <<>>>>, <<QueryRef(n - 1)>>) : t \in {TBase, TValuesX} }
  \cup { Query(<< <<>>, <<" ">>, <<>> >>, <<a, QueryRef(n - 1)>>) :
           a \in {IntNum(1)} \cup {QueryRef(r) : r \in 1..(n - 2)} }
  \cup { Query(<<TValues, <<>>>>,
               <<sqlCall(Obj(<< <<"a">>, <<"b">> >>,
                             <<Arr(<<QueryRef(n - 1), QueryRef(n - 1)>>), IntNum(7)>>),
                         <<>>)>>) }

\* The ids of the queries q embeds directly, as values or in a Builder's rows.
RefsIn(v) ==
  LET OfValue(x) ==
        IF x.k = "Query" THEN {x.id}
        ELSE IF x.k = "array"
          THEN {x.xs[i].id : i \in {j \in 1..Len(x.xs) : x.xs[j].k = "Query"}}
        ELSE {}
  IN IF v.k = "Query" THEN {v.id}
     ELSE IF v.k = "Builder" /\ v.first.k = "object"
       THEN UNION {OfValue(v.first.vals[i]) : i \in 1..Len(v.first.vals)}
     ELSE {}

QueryRefs(q) == UNION {RefsIn(q.args[i]) : i \in 1..Len(q.args)}

\* The heaps of n queries, each query but the last embedded by a later one.
RECURSIVE HeapsOf(_)
HeapsOf(n) ==
  IF n = 0 THEN {<<>>}
  ELSE {Append(h, q) : h \in HeapsOf(n - 1),
                       q \in LeafQueries \cup
                               (IF n = 1 THEN {} ELSE EmbeddingQueries(n))}

ComposeHeaps ==
  UNION {{h \in HeapsOf(n) :
            \A i \in 1..(n - 1) : \E j \in (i + 1)..n : i \in QueryRefs(h[j])} :
         n \in 1..MaxQueries}

\* The heap after a call that has set the fragment flag of the queries marked
MarkFragments(h, marked) ==
  [i \in 1..Len(h) |-> IF i \in marked THEN [h[i] EXCEPT !.fragment = TRUE] ELSE h[i]]

ComposeInit ==
  /\ heap \in ComposeHeaps
  /\ requests = <<>>
  /\ attached = {}
  /\ begun = {}
  /\ arrayParserState = InitArrayParserState
  /\ last = [op |-> "none"]

\* q.prepare(), called by the user
Prepare(id) ==
  /\ id \in 1..Len(heap)
  /\ last' = [op |-> "prepare", q |-> id, out |-> prepare(heap, id), sent |-> FALSE]
  /\ heap' = MarkFragments(heap, last'.out.marked)
  /\ UNCHANGED <<requests, attached, begun, arrayParserState>>

ComposeNext == \E id \in 1..MaxQueries : Prepare(id)

SpecCompose == ComposeInit /\ [][ComposeNext]_vars

(***************************************************************************)
(* Specification SpecDispatch: Builder.build (289-297) on texts made of    *)
(* keywords and other words.  One query holds the text and, after it, the  *)
(* Builder sql(["a", "b"]); prepare() stringifies it, which dispatches the *)
(* Builder on the text.                                                    *)
(***************************************************************************)
\* The most pieces (a word and the separator after it) in a text.
MaxWords == 3

\* A word, perhaps empty, and the separator after it, perhaps none.
DispatchPieces ==
  { w \o s :
      w \in { <<>>, <<"x">>, <<"x", "i", "n">>, <<"i", "n">>, <<"I", "N">>,
              <<"a", "s">>, <<"v", "a", "l", "u", "e", "s">>,
              <<"s", "e", "l", "e", "c", "t">>, <<"u", "p", "d", "a", "t", "e">>,
              <<"i", "n", "s", "e", "r", "t">>,
              <<"r", "e", "t", "u", "r", "n", "i", "n", "g">> },
      s \in { <<>>, <<" ">>, <<"(">> } }

\* The texts before the Builder: up to MaxWords pieces.
DispatchTexts ==
  LET RECURSIVE Upto(_)
      Upto(n) == IF n = 0 THEN {<<>>}
                 ELSE LET shorter == Upto(n - 1)
                      IN shorter \cup {t \o p : t \in shorter, p \in DispatchPieces}
  IN Upto(MaxWords)

DispatchInit ==
  /\ heap \in { <<Query(<<t, <<>>>>,
                       <<sqlCall(Arr(<<Str(<<"a">>), Str(<<"b">>)>>), <<>>)>>)>> :
                t \in DispatchTexts }
  /\ requests = <<>>
  /\ attached = {}
  /\ begun = {}
  /\ arrayParserState = InitArrayParserState
  /\ last = [op |-> "none"]

SpecDispatch == DispatchInit /\ [][ComposeNext]_vars

(***************************************************************************)
(* Specification Spec: the client returned by neon().  Queries are made    *)
(* with the sql tag, prepared, consumed with then / catch / finally (await *)
(* calls then) or passed to sql.begin; payloads are sent with sql.execute; *)
(* the transport answers the requests in any order.                        *)
(***************************************************************************)
\* The most Query objects made and requests sent.
MaxObjs == 2
MaxRequests == 2

TSelectOne == <<"s", "e", "l", "e", "c", "t", " ", "1">>

\* { query: payload.query, params: payload.params, arrayMode: true }
transformPayload(payload) ==
  [query |-> payload.query, params |-> payload.params, arrayMode |-> TRUE]

\* The request fetch sends for what execute is given: one payload or an
\* array of them.  of are the queries the payloads were prepared from.
RequestFor(payload, of) ==
  IF payload.k = "array"
    THEN [kind |-> "batch", of |-> of, done |-> FALSE,
          body |-> [i \in 1..Len(payload.xs) |-> transformPayload(payload.xs[i])]]
  ELSE [kind |-> "single", of |-> of, done |-> FALSE,
        body |-> <<transformPayload(payload)>>]

\* The templates the sql tag is called with, refs being the queries made.
Templates(refs) ==
  { Query(<<TSelectOne>>, <<>>),
    Query(<<TAge, <<>>>>, <<IntNum(50)>>),
    Query(<<TAge, <<>>>>, <<Undefined>>) }
  \cup { Query(<<TBase, <<>>>>, <<QueryRef(r)>>) : r \in refs }

\* The sql tag submitting the query it makes at once.
SqlSubmitting(q) ==
  /\ Len(heap) < MaxObjs
  /\ heap' = Append(heap, q)
  /\ requests' = IF prepare(heap', Len(heap')).k = "payload" /\ Len(requests) < MaxRequests
                   THEN Append(requests, RequestFor(prepare(heap', Len(heap')), <<Len(heap')>>))
                 ELSE requests
  /\ last' = [op |-> "sql", q |-> Len(heap'), out |-> QueryRef(Len(heap')),
              sent |-> requests' # requests]
  /\ UNCHANGED <<attached, begun, arrayParserState>>

\* sql`..`: new Query(strings, args, execute)
Sql(q) ==
  /\ Len(heap) < MaxObjs
  /\ heap' = Append(heap, q)
  /\ last' = [op |-> "sql", q |-> Len(heap) + 1, out |-> QueryRef(Len(heap) + 1),
              sent |-> FALSE]
  /\ UNCHANGED <<requests, attached, begun, arrayParserState>>

\* handle(): this.handler(this.prepare()), p being what prepare() returned.
\* fetch is called before execute awaits anything.
HandleWith(id, op, p) ==
  /\ heap' = MarkFragments(heap, p.marked)
  /\ IF p.k = "throw"
       THEN /\ requests' = requests
            /\ last' = [op |-> op, q |-> id, out |-> Throw(p.e), sent |-> FALSE]
       ELSE /\ Len(requests) < MaxRequests
            /\ requests' = Append(requests, RequestFor(p, <<id>>))
            /\ last' = [op |-> op, q |-> id, out |-> Undefined, sent |-> TRUE]
  /\ attached' = attached \cup {id}
  /\ UNCHANGED <<begun, arrayParserState>>

\* q.then(..), also what await q calls
Then(id) == id \in 1..Len(heap) /\ HandleWith(id, "then", prepare(heap, id))

\* q.catch(..)
Catch(id) == id \in 1..Len(heap) /\ HandleWith(id, "catch", prepare(heap, id))

\* q.finally(..)
Finally(id) == id \in 1..Len(heap) /\ HandleWith(id, "finally", prepare(heap, id))

\* What sql.begin may be given: a Query, another Promise, a value that is no
\* array, arrays of Queries and numbers; and functions that return such.
BeginItems ==
  { QueryRef(1), [k |-> "promise"], Str(<<"x">>), Arr(<<>>), Arr(<<IntNum(1)>>),
    Arr(<<QueryRef(1), IntNum(1)>>), Arr(<<QueryRef(1), QueryRef(2)>>) }
  \cup {Arr(<<QueryRef(i)>>) : i \in 1..MaxObjs}

BeginArguments ==
  BeginItems
  \cup {[k |-> "function", returns |-> items] :
          items \in {QueryRef(1), Arr(<<QueryRef(1)>>)}}

\* Whether x instanceof Promise: a Query is a Promise.
IsPromise(x) == x.k \in {"promise", "Query"}

\* items.map(item => item instanceof Query ? item.prepare() : throw ..) from
\* element n on: the payloads, or the exception, and the queries prepare()
\* has flagged as fragments until then.
RECURSIVE BeginMap(_, _, _, _, _), BeginStep(_, _, _, _, _, _)
\* The map of begin leaving out the elements that are no Query.
BeginMapSkippingOthers(h, items, n, payloads, marked) ==
  IF n > Len(items) THEN [k |-> "array", xs |-> payloads, marked |-> marked]
  ELSE IF items[n].k # "Query" THEN BeginMap(h, items, n + 1, payloads, marked)
  ELSE BeginStep(h, items, n, payloads, marked, prepare(h, items[n].id))

BeginMap(h, items, n, payloads, marked) ==
  IF n > Len(items) THEN [k |-> "array", xs |-> payloads, marked |-> marked]
  ELSE IF items[n].k # "Query"
    THEN [k |-> "throw", e |-> "Error: Invalid query, expected a Query object",
          marked |-> marked]
  ELSE BeginStep(h, items, n, payloads, marked, prepare(h, items[n].id))

BeginStep(h, items, n, payloads, marked, p) ==
  IF p.k = "throw" THEN [p EXCEPT !.marked = @ \cup marked]
  ELSE BeginMap(h, items, n + 1, Append(payloads, p), marked \cup p.marked)

\* The body of sql.begin up to the call of execute: what execute is given, or
\* the exception thrown.
beginQueries(h, items) ==
  IF IsPromise(items)
    THEN [k |-> "throw", marked |-> {},
          e |-> "Error: Invalid transaction, interactive transactions are not supported"]
  ELSE IF items.k # "array"
    THEN [k |-> "throw", marked |-> {},
          e |-> "Error: Invalid transaction, expected an array of queries"]
  ELSE BeginMap(h, items.xs, 1, <<>>, {})

\* The ids of the Queries among the elements of items, in their order.
QueriesOf(items) ==
  IF items.k = "Query" THEN <<items.id>>
  ELSE IF items.k = "array"
    THEN SelectSeq([i \in 1..Len(items.xs) |->
                      IF items.xs[i].k = "Query" THEN items.xs[i].id ELSE 0],
                   LAMBDA x : x # 0)
  ELSE <<>>

BeginWith(items, fn, r) ==
  /\ heap' = MarkFragments(heap, r.marked)
  /\ IF r.k = "throw"
       THEN /\ requests' = requests
            /\ last' = [op |-> "begin", items |-> items, fn |-> fn,
                        out |-> Throw(r.e), sent |-> FALSE]
       ELSE /\ Len(requests) < MaxRequests
            /\ requests' = Append(requests, RequestFor(r, QueriesOf(items)))
            /\ last' = [op |-> "begin", items |-> items, fn |-> fn,
                        out |-> Undefined, sent |-> TRUE]
  /\ begun' = begun \cup {QueriesOf(items)[i] : i \in 1..Len(QueriesOf(items))}
  /\ UNCHANGED <<attached, arrayParserState>>

\* typeof itemsOrFn === "function" ? itemsOrFn(sql) : itemsOrFn
ItemsOf(itemsOrFn) ==
  IF itemsOrFn.k = "function" THEN itemsOrFn.returns ELSE itemsOrFn

\* sql.begin(itemsOrFn)
Begin(itemsOrFn) ==
  /\ \A i \in 1..Len(QueriesOf(ItemsOf(itemsOrFn))) :
       QueriesOf(ItemsOf(itemsOrFn))[i] <= Len(heap)
  /\ BeginWith(ItemsOf(itemsOrFn), itemsOrFn.k = "function",
               beginQueries(heap, ItemsOf(itemsOrFn)))

\* sql.execute(payload), called by the user with a payload of their own
Execute(payload) ==
  /\ Len(requests) < MaxRequests
  /\ requests' = Append(requests, RequestFor(payload, <<>>))
  /\ last' = [op |-> "execute", out |-> Undefined, sent |-> TRUE]
  /\ UNCHANGED <<heap, attached, begun, arrayParserState>>

\* What the transport answers: an error status, or the rows of one result.
Responses ==
  { [ok |-> FALSE],
    [ok |-> TRUE, fields |-> <<1007, 25>>, rows |-> << <<<<"{", "1", ",", "2", "}">>, <<"a">>>> >>] }

\* row.map((value, index) => deserialize(value, fields[index].dataTypeID))
RECURSIVE ProcessRow(_, _, _, _, _), ProcessRowStep(_, _, _, _, _)
ProcessRow(s, row, fields, i, out) ==
  IF i > Len(row) THEN [s |-> s, v |-> Arr(out)]
  ELSE ProcessRowStep(row, fields, i, out, deserialize(s, row[i], fields[i]))

ProcessRowStep(row, fields, i, out, d) ==
  ProcessRow(d.s, row, fields, i + 1, Append(out, d.v))

\* processResult: result.rows.map(..)
RECURSIVE ProcessRows(_, _, _, _), ProcessRowsStep(_, _, _, _)
ProcessRows(s, result, n, out) ==
  IF n > Len(result.rows) THEN [s |-> s, v |-> Arr(out)]
  ELSE ProcessRowsStep(result, n, out, ProcessRow(s, result.rows[n], result.fields, 1, <<>>))

ProcessRowsStep(result, n, out, r) == ProcessRows(r.s, result, n + 1, Append(out, r.v))

processResult(s, result) == ProcessRows(s, result, 1, <<>>)

\* results.map(processResult) for the n results of a batch
RECURSIVE ProcessResults(_, _, _, _), ProcessResultsStep(_, _, _, _)
ProcessResults(s, result, n, out) ==
  IF n = 0 THEN [s |-> s, v |-> Arr(out)]
  ELSE ProcessResultsStep(result, n, out, processResult(s, result))

ProcessResultsStep(result, n, out, r) ==
  ProcessResults(r.s, result, n - 1, Append(out, r.v))

\* What execute returns for request n answered by response, each statement
\* of a batch answered by the same result.
Answer(s, request, response) ==
  IF ~response.ok THEN [s |-> s, v |-> Throw("Error")]
  ELSE IF request.kind = "batch"
    THEN ProcessResults(s, response, Len(request.body), <<>>)
  ELSE processResult(s, response)

RespondWith(n, r) ==
  /\ requests' = [requests EXCEPT ![n].done = TRUE]
  /\ arrayParserState' = r.s
  /\ heap' = [i \in 1..Len(heap) |->
                IF requests[n].kind = "single" /\ requests[n].of = <<i>>
                     /\ heap[i].state = "pending"
                  THEN [heap[i] EXCEPT !.state = IF r.v.k = "throw" THEN "rejected"
                                                  ELSE "fulfilled"]
                ELSE heap[i]]
  /\ last' = [op |-> "respond", n |-> n, out |-> r.v, sent |-> FALSE]
  /\ UNCHANGED <<attached, begun>>

\* The transport answers request n: execute returns or throws, and
\* .then(this.resolve).catch(this.reject) settles the query, if it is pending.
Respond(n, response) ==
  /\ n \in 1..Len(requests)
  /\ ~requests[n].done
  /\ RespondWith(n, Answer(arrayParserState, requests[n], response))

Init ==
  /\ heap = <<>>
  /\ requests = <<>>
  /\ attached = {}
  /\ begun = {}
  /\ arrayParserState = InitArrayParserState
  /\ last = [op |-> "none"]

Next ==
  \/ \E q \in Templates(1..Len(heap)) : Sql(q)
  \/ \E id \in 1..MaxObjs : Prepare(id)
  \/ \E id \in 1..MaxObjs : Then(id)
  \/ \E id \in 1..MaxObjs : Catch(id)
  \/ \E id \in 1..MaxObjs : Finally(id)
  \/ \E itemsOrFn \in BeginArguments : Begin(itemsOrFn)
  \/ Execute([k |-> "payload", query |-> TSelectOne, params |-> <<>>, types |-> <<>>])
  \/ \E n \in 1..MaxRequests, response \in Responses : Respond(n, response)

Spec == Init /\ [][Next]_vars

(***************************************************************************)
(*                               CLAIMS                                    *)
(***************************************************************************)

\* C5: for every supported native value kind v (null, boolean, integer and
\* non-integer number, bigint, string, Date, binary buffer, plain object,
\* array), deserialize(serialize(v), inferType(v)) is a value equal to v.
\* Stated as the claim has it; the code does not satisfy it.
C5_RoundTripsEveryKind ==
  last.op = "deserialize" /\ "v" \in DOMAIN last => last.out = last.v

\* C6: the array text decode (arrayParser, then the one-level flatten) of a
\* well-formed literal gives its element structure: {1,2,3} gives "1","2","3";
\* {{1,2},{3,4}} gives a 2x2 nested sequence; {} gives no elements; and
\* {"a""b"} gives the one element a"b.  Stated as the claim has it; the code
\* does not satisfy it.
C6_DecodesElementStructure ==
  last.op = "arrayParser" /\ last.parser = "none" /\ last.typarray = 0 =>
    /\ last.x = <<"{", "1", ",", "2", ",", "3", "}">> =>
         last.out = Arr(<<Str(<<"1">>), Str(<<"2">>), Str(<<"3">>)>>)
    /\ last.x = <<"{", "{", "1", ",", "2", "}", ",", "{", "3", ",", "4", "}", "}">> =>
         last.out = Arr(<<Arr(<<Str(<<"1">>), Str(<<"2">>)>>),
                          Arr(<<Str(<<"3">>), Str(<<"4">>)>>)>>)
    /\ last.x = <<"{", "}">> => last.out = Arr(<<>>)
    /\ last.x = <<"{", "\"", "a", "\"", "\"", "b", "\"", "}">> =>
         last.out = Arr(<<Str(<<"a", "\"", "b">>)>>)

(***************************************************************************)
(* What the claims on composition speak of                                 *)
(***************************************************************************)
\* The numbers of the placeholders "$n" of a text, in the order they occur.
Placeholders(x) ==
  LET at == {i \in 1..Len(x) : x[i] = "$"}
      NumberAt(i) ==
        LET n == CHOOSE m \in 0..(Len(x) - i) :
                   /\ \A j \in 1..m : IsDigit(x[i + j])
                   /\ i + m = Len(x) \/ ~IsDigit(x[i + m + 1])
        IN CharsToNat(SubSeq(x, i + 1, i + n))
  IN [k \in 1..Cardinality(at) |->
        NumberAt(CHOOSE i \in at : Cardinality({j \in at : j <= i}) = k)]

\* Whether query id, and every fragment it embeds, holds no Builder.
RECURSIVE NoBuilders(_, _)
NoBuilders(h, id) ==
  \A i \in 1..Len(h[id].args) :
    /\ h[id].args[i].k # "Builder"
    /\ h[id].args[i].k = "Query" => NoBuilders(h, h[id].args[i].id)

\* The plain values of query id and of the fragments it embeds, depth first,
\* left to right.
RECURSIVE ValuesInOrder(_, _), ValuesFrom(_, _, _)
ValuesFrom(h, id, i) ==
  IF i > Len(h[id].args) THEN <<>>
  ELSE (CASE h[id].args[i].k = "Parameter" -> <<h[id].args[i].value>>
          [] h[id].args[i].k = "Query" -> ValuesInOrder(h, h[id].args[i].id)
          [] OTHER -> <<>>)
       \o ValuesFrom(h, id, i + 1)

ValuesInOrder(h, id) == ValuesFrom(h, id, 1)

\* Query q with the literal segments and the values of the fragments it
\* embeds put in their place, so a query that embeds none.
RECURSIVE Flatten(_, _), FlattenFrom(_, _, _, _, _)
AppendToLast(strs, t) == [strs EXCEPT ![Len(strs)] = @ \o t]

FlattenFrom(h, q, i, strs, args) ==
  IF i > Len(q.args) THEN [q EXCEPT !.strings = strs, !.args = args]
  ELSE IF q.args[i].k = "Query"
    THEN LET f == Flatten(h, h[q.args[i].id])
         IN FlattenFrom(h, q, i + 1,
                        AppendToLast(AppendToLast(strs, f.strings[1]) \o Tail(f.strings),
                                     q.strings[i + 1]),
                        args \o f.args)
  ELSE FlattenFrom(h, q, i + 1, Append(strs, q.strings[i + 1]), Append(args, q.args[i]))

Flatten(h, q) == FlattenFrom(h, q, 1, <<q.strings[1]>>, <<>>)

\* Whether two results of prepare are the same text, parameters and types,
\* or the same exception.
SameResult(x, y) ==
  /\ x.k = y.k
  /\ x.k = "throw" => x.e = y.e
  /\ x.k = "payload" => x.query = y.query /\ x.params = y.params /\ x.types = y.types

\* Whether the last call was prepare() and gave what the flattened query gives.
LastAsFlattened ==
  SameResult(last.out, prepare(Append(heap, Flatten(heap, heap[last.q])), Len(heap) + 1))

\* C1: a query built from plain values, Identifiers and nested fragments has
\* its placeholders numbered $1..$k in order, k the length of the parameter
\* array and of the type array, the i-th placeholder standing for the i-th
\* value; so on any prepare call, repeated ones included.
C1_PlaceholdersNumbered ==
  last.op = "prepare" /\ last.out.k = "payload" =>
    /\ Len(last.out.params) = Len(last.out.types)
    /\ Placeholders(last.out.query) = [i \in 1..Len(last.out.params) |-> i]
    /\ NoBuilders(heap, last.q) =>
         last.out.params = [i \in 1..Len(ValuesInOrder(heap, last.q)) |->
                              serialize(ValuesInOrder(heap, last.q)[i])]

\* A query that embeds a fragment holding two values after a value of its
\* own, prepared after the fragment was.
C1_Witness ==
  /\ last.op = "prepare" /\ last.out.k = "payload"
  /\ NoBuilders(heap, last.q)
  /\ Placeholders(last.out.query) = <<1, 2, 3>>
  /\ \E i \in 1..Len(heap[last.q].args) :
       heap[last.q].args[i].k = "Query" /\ heap[heap[last.q].args[i].id].fragment

\* C3: nesting is associative, for queries whose embedded fragments hold no
\* Builder: a query gives the text, parameters and types that the query with
\* the fragments flattened in place gives.
C3_NestingAssociativeWithoutBuilders ==
  last.op = "prepare" /\ (\A i \in 1..Len(heap[last.q].args) :
                            heap[last.q].args[i].k = "Query" =>
                              NoBuilders(heap, heap[last.q].args[i].id)) =>
    LastAsFlattened

\* C3 as stated: whatever the embedded values are.
C3_NestingAssociative == last.op = "prepare" => LastAsFlattened

\* A query embedding a fragment that embeds a fragment, with values.
C3_Witness ==
  /\ last.op = "prepare" /\ last.out.k = "payload"
  /\ NoBuilders(heap, last.q)
  /\ Len(last.out.params) >= 2
  /\ \E i \in 1..Len(heap[last.q].args) :
       /\ heap[last.q].args[i].k = "Query"
       /\ \E j \in 1..Len(heap[heap[last.q].args[i].id].args) :
            heap[heap[last.q].args[i].id].args[j].k = "Query"
  /\ LastAsFlattened

\* C9: the query insert into users ${sql({name: "John", age: 30})} renders
\* the Builder as (name,age)values($1,$2), with parameters "John" and "30"
\* of types text and integer.
C9_InsertRendersColumnsAndValues ==
  last.op = "prepare" /\ heap[last.q].strings = <<TInsert, <<>>>>
    /\ heap[last.q].args = <<sqlCall(JohnRecord, <<>>)>> =>
    /\ last.out.k = "payload"
    /\ last.out.query = TInsert \o <<"(", "n", "a", "m", "e", ",", "a", "g", "e", ")", "v", "a", "l", "u", "e", "s", "(", "$", "1", ",", "$", "2", ")">>
    /\ last.out.params = <<John, Str(<<"3", "0">>)>>
    /\ last.out.types = <<25, 23>>

\* C10: a Builder governed by the keyword in and given an empty list renders
\* (null) and adds no parameter; governed by in, a Builder never renders ().
C10_EmptyInRendersNull ==
  last.op = "prepare" /\ Len(heap[last.q].args) = 1
    /\ heap[last.q].args[1].k = "Builder"
    /\ Keyword(heap[last.q].strings[1]).i # -1
    /\ Keyword(heap[last.q].strings[1]).fn = "in" =>
    /\ last.out.k = "payload" =>
         last.out.query # heap[last.q].strings[1] \o <<"(", ")">> \o heap[last.q].strings[2]
    /\ heap[last.q].args[1] = sqlCall(Arr(<<>>), <<>>) =>
         /\ last.out.k = "payload"
         /\ last.out.query = heap[last.q].strings[1] \o <<"(", "n", "u", "l", "l", ")">>
                               \o heap[last.q].strings[2]
         /\ last.out.params = <<>> /\ last.out.types = <<>>

\* x in ${sql([])} prepared.
C10_Witness ==
  /\ last.op = "prepare"
  /\ heap[last.q].strings = <<TXIn, <<>>>>
  /\ heap[last.q].args = <<sqlCall(Arr(<<>>), <<>>)>>
  /\ last.out.k = "payload"
  /\ last.out.query = TXIn \o <<"(", "n", "u", "l", "l", ")">>

(***************************************************************************)
(* What the claims on the client speak of                                  *)
(***************************************************************************)
\* Whether a value position of query id, or of a fragment it embeds, holds
\* undefined.
RECURSIVE HoldsUndefined(_, _)
HoldsUndefined(h, id) ==
  \E i \in 1..Len(h[id].args) :
    \/ h[id].args[i].k = "Parameter" /\ h[id].args[i].value.k = "undefined"
    \/ h[id].args[i].k = "Query" /\ HoldsUndefined(h, h[id].args[i].id)

\* The requests sent for query id by its own then / catch / finally.
RequestsOf(id) ==
  {n \in 1..Len(requests) : requests[n].kind = "single" /\ requests[n].of = <<id>>}

\* C2: whatever then / catch / finally calls are made on one Query, the
\* transport receives at most one request for it.
C2_AtMostOneRequestPerQuery ==
  \A id \in 1..Len(heap) : Cardinality(RequestsOf(id)) <= 1

\* C4: a query is inert until consumed: a request carrying the statement of
\* query Q is sent only once then / catch / finally was called on Q or Q was
\* passed to begin; making Q, preparing it, or consuming a query that embeds
\* Q sends no request for Q.
C4_InertUntilConsumed ==
  /\ \A n \in 1..Len(requests) : \A i \in 1..Len(requests[n].of) :
       IF requests[n].kind = "single" THEN requests[n].of[i] \in attached
       ELSE requests[n].of[i] \in begun
  /\ last.op \in {"sql", "prepare"} => ~last.sent

\* A query embedded in a consumed query, with no request of its own.
C4_Witness ==
  \E n \in 1..Len(requests), id \in 1..Len(heap) :
    /\ requests[n].kind = "single"
    /\ Len(requests[n].of) = 1
    /\ \E i \in 1..Len(heap[requests[n].of[1]].args) :
         heap[requests[n].of[1]].args[i] = QueryRef(id)
    /\ heap[id].fragment
    /\ id \notin attached \cup begun
    /\ \A m \in 1..Len(requests) : \A i \in 1..Len(requests[m].of) : requests[m].of[i] # id

\* C7: a query with undefined in a value position ends in an error when it
\* is finalized, by prepare, then, catch, finally or begin: no payload comes
\* out and no request is sent, so no request is ever sent for such a query.
C7_UndefinedIsAnError ==
  /\ last.op \in {"prepare", "then", "catch", "finally"} /\ HoldsUndefined(heap, last.q) =>
       last.out.k = "throw" /\ ~last.sent
  /\ last.op = "begin" /\ last.items.k = "array" =>
       ((/\ \A i \in 1..Len(last.items.xs) : last.items.xs[i].k = "Query"
         /\ \E i \in 1..Len(last.items.xs) : HoldsUndefined(heap, last.items.xs[i].id))
        => last.out.k = "throw" /\ ~last.sent)
  /\ \A n \in 1..Len(requests) : \A i \in 1..Len(requests[n].of) :
       ~HoldsUndefined(heap, requests[n].of[i])

\* then called on a query that embeds a fragment holding undefined.
C7_Witness ==
  /\ last.op = "then"
  /\ \E i \in 1..Len(heap[last.q].args) :
       /\ heap[last.q].args[i].k = "Query"
       /\ HoldsUndefined(heap, heap[last.q].args[i].id)
  /\ last.out.k = "throw"
  /\ requests = <<>>

OccursAt(x, kw, i) ==
  /\ HasAtCI(x, i, kw)
  /\ i = 0 \/ IsBoundary(x[i])
  /\ i + Len(kw) = Len(x) \/ IsBoundary(x[i + Len(kw) + 1])

\* The offset of the rightmost occurrence of kw in x, -1 when there is none.
RightmostOccurrence(x, kw) ==
  LET at == {i \in 0..Len(x) : OccursAt(x, kw, i)}
  IN IF at = {} THEN -1 ELSE CHOOSE i \in at : \A j \in at : j <= i

\* The keyword whose rightmost occurrence is furthest right, with its renderer.
RightmostKeyword(x) ==
  LET at == {[n |-> n, i |-> RightmostOccurrence(x, builders[n].kw)] : n \in 1..Len(builders)}
      top == CHOOSE a \in at : \A b \in at : b.i <= a.i
  IN [fn |-> builders[top.n].fn, i |-> top.i]

\* Whether dispatch on the text before picked as the claim says, w being the
\* rightmost keyword of before and k what Builder.build picked.
PicksRightmost(w, k) == IF w.i = -1 THEN k.i = -1 ELSE k.i # -1 /\ k.fn = w.fn

\* Whether the payload out is the text before followed by what the renderer
\* of keyword w makes of sql(["a", "b"]).
RendersAs(w, before, out) ==
  /\ w.i = -1 =>
       /\ out.k = "payload"
       /\ out.query = before \o <<"\"", "a", "\"", ",", "\"", "b", "\"">>
       /\ out.params = <<>>
  /\ w.i # -1 /\ w.fn \in {"values", "in"} =>
       /\ out.k = "payload"
       /\ out.query = before \o <<"(", "$", "1", ",", "$", "2", ")">>
       /\ out.params = <<Str(<<"a">>), Str(<<"b">>)>>

\* C11: a Builder is rendered by the renderer of the keyword whose rightmost
\* whole-word occurrence, letter case ignored, in the text before it is
\* furthest right; when no keyword occurs there it is rendered as the
\* comma-joined list of its escaped identifiers.
C11_DispatchPicksRightmostKeyword ==
  /\ PicksRightmost(RightmostKeyword(heap[1].strings[1]), Keyword(heap[1].strings[1]))
  /\ last.op = "prepare" =>
       RendersAs(RightmostKeyword(heap[1].strings[1]), heap[1].strings[1], last.out)

(***************************************************************************)
(* What the claim on the scratch record speaks of                          *)
(***************************************************************************)
\* C12: whatever parses came before, a parse of a literal gives what the
\* same parse gives as the very first one, on the scratch record as the
\* module creates it: nothing of the record carries over into the result.
C12_ParseIndependentOfEarlierParses ==
  /\ last.op = "arrayParser" =>
       last.out = Arr(Flat(arrayParser(InitArrayParserState, last.x, last.parser,
                                       last.typarray).xs))
  /\ last.op = "deserialize" =>
       last.out = deserialize(InitArrayParserState, last.x, 1007).v

====
